---- MODULE Spec2Model ----
(***************************************************************************)
(* A model of the client-side state machines of the lease-analysis         *)
(* frontend: the DocumentUploader modal (upload / analysis flow, letter    *)
(* generation, report export) and the two chat widgets (ChatBot and        *)
(* AnalysisChatBot).                                                       *)
(*                                                                         *)
(* The browser runs one handler at a time, so every action below is one    *)
(* run-to-completion segment of a handler: from the event up to the first  *)
(* await, or from the settling of an awaited request to the handler's end. *)
(***************************************************************************)
EXTENDS Integers, Sequences, FiniteSets, TLC

VARIABLES
    showUploader,        \* page.tsx / AuthenticatedApp.tsx: the modal is mounted
    uploads,             \* /api/upload-document requests issued so far
    uploadStatus,        \* DocumentUploader state
    progress,
    results,
    error,
    isGeneratingLetter,
    generatedLetter,
    selectedLanguage,
    sentLanguage,        \* the language of the instance's last upload request
    pending,             \* /api/upload-document requests in flight
    timers,              \* progressInterval timers not yet cleared
    letterPending,       \* /api/generate-letter requests in flight
    download,            \* the file the last handler handed to the browser, if any
    toast,               \* the notification the last handler showed, if any
    statusWrites,        \* the setUploadStatus calls of the last handler, in order
    lastOp,              \* the last handler run and its inputs
    widget,              \* which chat component this is: ChatBot or AnalysisChatBot
    analysisResults,     \* AnalysisChatBot's prop (null for ChatBot)
    isOpen,              \* chat widget state
    messages,
    isLoading,
    chatPending,         \* the /api/chat request in flight, if any
    chatOp,              \* the last chat handler run
    pdfInput,            \* the results handleDownloadReport is exporting, if any
    pdfStep,             \* its position in the addText / addSectionBreak calls
    yPosition            \* its vertical cursor

uploaderVars == <<showUploader, uploads, uploadStatus, progress, results,
                  error, isGeneratingLetter, generatedLetter, selectedLanguage,
                  sentLanguage, pending, timers, letterPending, download, toast, statusWrites,
                  lastOp>>

chatVars == <<widget, analysisResults, isOpen, messages, isLoading, chatPending,
              chatOp>>

pdfVars == <<pdfInput, pdfStep, yPosition>>

vars == <<uploaderVars, chatVars, pdfVars>>

----------------------------------------------------------------------------
(* Bounds of the model *)

\* uploads started on the page, over all the modals it opens
MaxUploads == 2

\* messages a chat widget stores before the model stops sending
MaxMessages == 8

----------------------------------------------------------------------------
(* Values *)

\* T | null
Null == <<>>
Some(x) == <<x>>

MaxFileSize == 10 * 1024 * 1024

\* the files a drop can deliver: none accepted, or a file of some size
NoFile == -1
FileSizes == {NoFile, 1, MaxFileSize, MaxFileSize + 1}

\* two of the ten SUPPORTED_LANGUAGES
Languages == {"en", "es"}
Translated == {"en", "ko", "es", "fr", "ja"}

Clause(n, sev) ==
    [clause_text |-> "text" \o n, issue |-> "issue" \o n, severity |-> sev,
     explanation |-> "expl" \o n, recommendation |-> "action" \o n]

Right(n, imp) ==
    [title |-> "right" \o n, description |-> "desc" \o n, importance |-> imp]

Payload1 ==
    [document_id |-> 1, filename |-> "lease.pdf",
     analysis |->
        [unfair_clauses |-> <<Clause("1", "medium"), Clause("2", "high"),
                              Clause("3", "low"), Clause("4", "high")>>,
         plain_english_summary |-> "summary1",
         tenant_rights |-> <<Right("1", "low"), Right("2", "high")>>,
         recommendations |-> <<"rec2", "rec1">>,
         overall_score |-> 45]]

Payload2 ==
    [document_id |-> 2, filename |-> "scan.png",
     analysis |->
        [unfair_clauses |-> <<>>,
         plain_english_summary |-> "summary2",
         tenant_rights |-> <<>>,
         recommendations |-> <<>>,
         overall_score |-> 90]]

Payloads == {Payload1, Payload2}

\* what a failed axios.post rejects with: no response at all (network
\* failure), or a non-2xx response whose body may carry a detail field
NetworkError == [response |-> Null]
HttpError(status, detail) ==
    [response |-> Some([status |-> status, data |-> [detail |-> detail]])]
UploadErrors ==
    {NetworkError, HttpError(500, Null), HttpError(400, Some("bad file")),
     HttpError(422, Some(""))}

DefaultUploadError == "Failed to analyze document. Please try again."

LetterContents == {"letter1", "letter2"}

\* lastOp: the handler, and where it has them: the size of the dropped file,
\* the upload the settled request or the fired timer belongs to and whether
\* that is an upload of the mounted instance, the response payload or the
\* rejection, and where the PDF library threw
NoOp == [op |-> "init", size |-> NoFile, upload |-> 0, live |-> TRUE,
         payload |-> Null, err |-> Null, throwAt |-> "none"]

----------------------------------------------------------------------------
(* DocumentUploader: pure helpers *)

\* faulty variant of Mounted: the state is shared by every instance, so a
\* closure of an unmounted modal writes the state of the mounted one
MountedAlways(x) == TRUE

\* a request or timer records the upload it belongs to and whether the
\* DocumentUploader instance that started it is still mounted
Mounted(x) == x.live

\* the closures of an instance that is unmounted
Orphaned(set) == {[x EXCEPT !.live = FALSE] : x \in set}

\* faulty variant of TooLarge: the limit taken as 100 MB
TooLargeHundred(size) == size > 100 * 1024 * 1024

\* onDrop: file.size > 10 * 1024 * 1024
TooLarge(size) == size > MaxFileSize

\* useDropzone({disabled: uploadStatus !== 'idle'})
DropzoneDisabled == uploadStatus # "idle"

\* the upload area is rendered only in the idle view
DropzoneRendered == uploadStatus = "idle"

\* faulty variant of DropAccepted: the dropzone takes files in every view
DropAcceptedAlways == TRUE

\* a drop or selection reaches onDrop
DropAccepted == DropzoneRendered /\ ~DropzoneDisabled

\* faulty variant of OnDropStatusWrites: setUploadStatus('uploading') left out
OnDropStatusWritesSkip == <<"processing">>

\* the setUploadStatus calls of onDrop before its await
OnDropStatusWrites == <<"uploading", "processing">>

\* err.response?.data?.detail
ErrorDetail(err) ==
    IF err.response = Null THEN Null ELSE err.response[1].data.detail

\* JavaScript truthiness of an optional string
Truthy(opt) == opt # Null /\ opt[1] # ""

\* faulty variant of UploadErrorMessage: the detail read from err.detail,
\* which axios never sets
UploadErrorMessageNoDetail(err) == DefaultUploadError

\* err.response?.data?.detail || 'Failed to analyze document. ...'
UploadErrorMessage(err) ==
    IF Truthy(ErrorDetail(err)) THEN ErrorDetail(err)[1] ELSE DefaultUploadError

\* faulty variant of ProgressUpdater: the cap tested with > instead of >=
ProgressUpdaterOffByOne(prev) == IF prev > 90 THEN 90 ELSE prev + 10

\* one run of the progressInterval updater on the value prev
ProgressUpdater(prev) == IF prev >= 90 THEN 90 ELSE prev + 10
ProgressUpdaterClears(prev) == prev >= 90

\* the timers of an instance that is unmounted with progress prev: clears
\* records whether the updater, run on that progress, calls clearInterval
OrphanedTimers(set, prev) ==
    {[upload |-> t.upload, live |-> FALSE,
      clears |-> IF t.live THEN ProgressUpdaterClears(prev) ELSE t.clears] :
       t \in set}

----------------------------------------------------------------------------
(* DocumentUploader: state after construction *)

UploaderInit ==
    /\ showUploader = FALSE
    /\ uploads = 0
    /\ uploadStatus = "idle"
    /\ progress = 0
    /\ results = Null
    /\ error = Null
    /\ isGeneratingLetter = FALSE
    /\ generatedLetter = Null
    /\ selectedLanguage = "en"
    /\ sentLanguage = Null
    /\ pending = {}
    /\ timers = {}
    /\ letterPending = {}
    /\ download = Null
    /\ toast = Null
    /\ statusWrites = <<>>
    /\ lastOp = NoOp

\* a page whose chat widget is never used
ChatIdle ==
    /\ widget = "ChatBot"
    /\ analysisResults = Null
    /\ isOpen = FALSE
    /\ messages = <<>>
    /\ isLoading = FALSE
    /\ chatPending = Null
    /\ chatOp = "init"

\* no report is being exported
PdfIdle ==
    /\ pdfInput = Null
    /\ pdfStep = 0
    /\ yPosition = 0

Init == UploaderInit /\ ChatIdle /\ PdfIdle

----------------------------------------------------------------------------
(* Page: mounting and unmounting the modal *)

\* setShowUploader(true): a fresh DocumentUploader with its useState defaults
OpenUploader ==
    /\ UNCHANGED <<chatVars, pdfVars>>
    /\ ~showUploader
    /\ showUploader' = TRUE
    /\ uploadStatus' = "idle"
    /\ progress' = 0
    /\ results' = Null
    /\ error' = Null
    /\ isGeneratingLetter' = FALSE
    /\ generatedLetter' = Null
    /\ selectedLanguage' = "en"
    /\ sentLanguage' = Null
    /\ statusWrites' = <<>>
    /\ lastOp' = [NoOp EXCEPT !.op = "open"]
    /\ toast' = Null
    /\ download' = Null
    /\ UNCHANGED <<uploads, pending, timers, letterPending>>

\* onClose (backdrop or X button) -> setShowUploader(false): the instance is
\* unmounted and its state is gone; its requests and timers are not cancelled
CloseUploader ==
    /\ UNCHANGED <<chatVars, pdfVars>>
    /\ showUploader
    /\ showUploader' = FALSE
    /\ pending' = Orphaned(pending)
    /\ timers' = OrphanedTimers(timers, progress)
    /\ letterPending' = Orphaned(letterPending)
    /\ uploadStatus' = "idle"
    /\ progress' = 0
    /\ results' = Null
    /\ error' = Null
    /\ isGeneratingLetter' = FALSE
    /\ generatedLetter' = Null
    /\ selectedLanguage' = "en"
    /\ sentLanguage' = Null
    /\ statusWrites' = <<>>
    /\ lastOp' = [NoOp EXCEPT !.op = "close"]
    /\ toast' = Null
    /\ download' = Null
    /\ UNCHANGED uploads

----------------------------------------------------------------------------
(* DocumentUploader: the upload flow *)

\* faulty variant of LanguageSelectRendered: the select is in every view
LanguageSelectAlways == TRUE

\* the language select is part of the idle view
LanguageSelectRendered == uploadStatus = "idle"

\* <select onChange={(e) => setSelectedLanguage(e.target.value)}>, idle view
SelectLanguage(lang) ==
    /\ UNCHANGED <<chatVars, pdfVars>>
    /\ UNCHANGED sentLanguage
    /\ showUploader
    /\ LanguageSelectRendered
    /\ selectedLanguage' = lang
    /\ statusWrites' = <<>>
    /\ lastOp' = [NoOp EXCEPT !.op = "selectLanguage"]
    /\ toast' = Null
    /\ download' = Null
    /\ UNCHANGED <<showUploader, uploads, uploadStatus, progress, results,
                   error, isGeneratingLetter, generatedLetter, pending, timers,
                   letterPending>>

\* onDrop, from the drop or selection up to the await of axios.post
OnDrop(size) ==
    /\ UNCHANGED <<chatVars, pdfVars>>
    /\ showUploader
    /\ DropAccepted
    /\ lastOp' = [NoOp EXCEPT !.op = "onDrop", !.size = size]
    /\ IF size = NoFile
       THEN \* if (!file) return
            /\ statusWrites' = <<>>
            /\ toast' = Null
            /\ UNCHANGED <<uploads, uploadStatus, progress, pending, timers,
                           sentLanguage>>
       ELSE IF TooLarge(size)
       THEN \* toast.error(...); return
            /\ toast' = Some("File size too large. Please upload a file smaller than 10MB.")
            /\ statusWrites' = <<>>
            /\ UNCHANGED <<uploads, uploadStatus, progress, pending, timers,
                           sentLanguage>>
       ELSE /\ uploads < MaxUploads
            /\ uploads' = uploads + 1
            /\ statusWrites' = OnDropStatusWrites
            /\ uploadStatus' = OnDropStatusWrites[Len(OnDropStatusWrites)]
            /\ progress' = 20
            /\ timers' = timers \cup
                 {[upload |-> uploads + 1, live |-> TRUE, clears |-> FALSE]}
            \* formData.append('language', selectedLanguage)
            /\ sentLanguage' = Some(selectedLanguage)
            /\ pending' = pending \cup
                 {[upload |-> uploads + 1, live |-> TRUE,
                   language |-> selectedLanguage]}
            /\ toast' = Null
    /\ download' = Null
    /\ UNCHANGED <<showUploader, results, error, isGeneratingLetter,
                   generatedLetter, selectedLanguage, letterPending>>

\* one firing of a progressInterval callback: setProgress(prev => ...)
Tick(t) ==
    /\ UNCHANGED <<chatVars, pdfVars>>
    /\ UNCHANGED sentLanguage
    /\ t \in timers
    /\ statusWrites' = <<>>
    /\ lastOp' = [NoOp EXCEPT !.op = "tick", !.upload = t.upload,
                              !.live = t.live]
    /\ IF Mounted(t)
       THEN /\ progress' = ProgressUpdater(progress)
            /\ timers' = IF ProgressUpdaterClears(progress)
                         THEN timers \ {t} ELSE timers
       ELSE \* the component is unmounted: React drops the update, so the
            \* updater, if React still runs it, sees the progress the instance
            \* was left with; whether it runs it is not decided by this code
            /\ timers' \in IF t.clears THEN {timers, timers \ {t}} ELSE {timers}
            /\ UNCHANGED progress
    /\ toast' = Null
    /\ download' = Null
    /\ UNCHANGED <<showUploader, uploads, uploadStatus, results, error,
                   isGeneratingLetter, generatedLetter, selectedLanguage,
                   pending, letterPending>>

\* the status onDrop writes when the request succeeded
SuccessStatus == "complete"

\* faulty variant of CatchStatus: the catch block goes straight back to idle
CatchStatusIdle == "idle"

\* the status onDrop's catch block writes
CatchStatus == "error"

\* onDrop after the await: axios.post resolved with response.data = payload
UploadSuccess(req, payload) ==
    /\ UNCHANGED <<chatVars, pdfVars>>
    /\ UNCHANGED sentLanguage
    /\ req \in pending
    /\ pending' = pending \ {req}
    /\ lastOp' = [NoOp EXCEPT !.op = "uploadSuccess", !.upload = req.upload,
                              !.live = req.live,
                              !.payload = Some(payload)]
    \* clearInterval(progressInterval)
    /\ timers' = {t \in timers : t.upload # req.upload}
    /\ toast' = Some("Document analyzed successfully!")
    /\ IF Mounted(req)
       THEN /\ progress' = 100
            /\ results' = Some(payload)
            /\ uploadStatus' = SuccessStatus
            /\ statusWrites' = <<SuccessStatus>>
       ELSE \* state setters of an unmounted component do nothing
            /\ statusWrites' = <<>>
            /\ UNCHANGED <<progress, results, uploadStatus>>
    /\ download' = Null
    /\ UNCHANGED <<showUploader, uploads, error, isGeneratingLetter,
                   generatedLetter, selectedLanguage, letterPending>>

\* onDrop after the await: axios.post rejected with err (the catch block)
UploadFailure(req, err) ==
    /\ UNCHANGED <<chatVars, pdfVars>>
    /\ UNCHANGED sentLanguage
    /\ req \in pending
    /\ pending' = pending \ {req}
    /\ lastOp' = [NoOp EXCEPT !.op = "uploadFailure", !.upload = req.upload,
                              !.live = req.live,
                              !.err = Some(err)]
    /\ toast' = Some(UploadErrorMessage(err))
    /\ IF Mounted(req)
       THEN /\ uploadStatus' = CatchStatus
            /\ statusWrites' = <<CatchStatus>>
            /\ error' = Some(UploadErrorMessage(err))
       ELSE /\ statusWrites' = <<>>
            /\ UNCHANGED <<uploadStatus, error>>
    /\ download' = Null
    /\ UNCHANGED <<showUploader, uploads, progress, results,
                   isGeneratingLetter, generatedLetter, selectedLanguage,
                   timers, letterPending>>

\* faulty variant of RetryProgress: setProgress(0) left out
RetryProgressKept == progress

\* the status and the progress the "try again" button writes
RetryStatus == "idle"
RetryProgress == 0

\* the "try again" button of the error view
Retry ==
    /\ UNCHANGED <<chatVars, pdfVars>>
    /\ UNCHANGED sentLanguage
    /\ showUploader
    /\ uploadStatus = "error"
    /\ uploadStatus' = RetryStatus
    /\ statusWrites' = <<RetryStatus>>
    /\ error' = Null
    /\ progress' = RetryProgress
    /\ lastOp' = [NoOp EXCEPT !.op = "retry"]
    /\ toast' = Null
    /\ download' = Null
    /\ UNCHANGED <<showUploader, uploads, results, isGeneratingLetter,
                   generatedLetter, selectedLanguage, pending, timers,
                   letterPending>>

----------------------------------------------------------------------------
(* DocumentUploader: the results view *)

\* TRANSLATIONS[selectedLanguage] || TRANSLATIONS.en
TranslationOf(lang) == IF lang \in Translated THEN lang ELSE "en"

\* faulty variant of getSeverityColor: the medium and low classes swapped
getSeverityColorSwapped(severity) ==
    CASE severity = "high" -> "text-red-600 bg-red-50 border-red-200"
      [] severity = "medium" -> "text-blue-600 bg-blue-50 border-blue-200"
      [] severity = "low" -> "text-yellow-600 bg-yellow-50 border-yellow-200"

getSeverityColor(severity) ==
    CASE severity = "high" -> "text-red-600 bg-red-50 border-red-200"
      [] severity = "medium" -> "text-yellow-600 bg-yellow-50 border-yellow-200"
      [] severity = "low" -> "text-blue-600 bg-blue-50 border-blue-200"

getScoreColor(score) ==
    IF score >= 80 THEN "text-green-600"
    ELSE IF score >= 60 THEN "text-yellow-600" ELSE "text-red-600"

\* one rendered clause card: unfair_clauses.map((clause, index) => ...)
ClauseCard(clause, lang) ==
    [className |-> getSeverityColor(clause.severity),
     badge |-> getSeverityColor(clause.severity),
     priority |-> <<TranslationOf(lang), "priorities", clause.severity>>,
     issue |-> clause.issue,
     clause_text |-> clause.clause_text,
     explanation |-> clause.explanation,
     recommendation |-> clause.recommendation]

\* one rendered tenant right: tenant_rights.map((right, index) => ...)
RightCard(right) == [title |-> right.title, description |-> right.description]

\* the entries of the "what you should do" list
RecommendationItems(r, lang) ==
    <<TranslationOf(lang) \o ".keepRecords",
      TranslationOf(lang) \o ".knowHotline",
      TranslationOf(lang) \o ".understandDeposit",
      TranslationOf(lang) \o ".takePhotos">>

\* faulty variant of ShownClauses: only the high-severity clauses are shown
ShownClausesHigh(r) ==
    SelectSeq(r.analysis.unfair_clauses, LAMBDA c : c.severity = "high")

\* the lists the results view maps over
ShownClauses(r) == r.analysis.unfair_clauses
ShownRights(r) == r.analysis.tenant_rights

\* what {uploadStatus === 'complete' && results && (...)} shows of r
ResultsView(r, lang) ==
    [score |-> r.analysis.overall_score,
     scoreColor |-> getScoreColor(r.analysis.overall_score),
     summary |-> r.analysis.plain_english_summary,
     clauses |-> [i \in 1..Len(ShownClauses(r)) |->
                    ClauseCard(ShownClauses(r)[i], lang)],
     rights |-> [i \in 1..Len(ShownRights(r)) |-> RightCard(ShownRights(r)[i])],
     recommendations |-> RecommendationItems(r, lang)]

\* the results view on screen, if any
View ==
    IF showUploader /\ uploadStatus = "complete" /\ results # Null
    THEN Some(ResultsView(results[1], selectedLanguage))
    ELSE Null

----------------------------------------------------------------------------
(* DocumentUploader: letter generation *)

\* the body of the /api/generate-letter request
LetterRequest(r, lang) ==
    [letter_type |-> "general_concern",
     context |-> [unfair_clauses |-> r.analysis.unfair_clauses,
                  overall_score |-> r.analysis.overall_score,
                  filename |-> r.filename,
                  recommendations |-> r.analysis.recommendations],
     language |-> lang,
     specific_issues |-> [i \in 1..Len(r.analysis.unfair_clauses) |->
                            r.analysis.unfair_clauses[i].issue]]

\* faulty variant of LetterButtonDisabled: the button is never disabled
LetterButtonNeverDisabled == FALSE

\* <button onClick={handleGenerateLetter} disabled={isGeneratingLetter}>
LetterButtonDisabled == isGeneratingLetter

\* handleGenerateLetter up to the await; the button is part of the results
\* view and disabled while isGeneratingLetter
GenerateLetter ==
    /\ UNCHANGED <<chatVars, pdfVars>>
    /\ UNCHANGED sentLanguage
    /\ View # Null
    /\ ~LetterButtonDisabled
    /\ isGeneratingLetter' = TRUE
    /\ letterPending' = letterPending \cup
         {[upload |-> uploads, live |-> TRUE,
           body |-> LetterRequest(results[1], selectedLanguage)]}
    /\ statusWrites' = <<>>
    /\ lastOp' = [NoOp EXCEPT !.op = "generateLetter"]
    /\ toast' = Null
    /\ download' = Null
    /\ UNCHANGED <<showUploader, uploads, uploadStatus, progress, results,
                   error, generatedLetter, selectedLanguage, pending, timers>>

\* handleGenerateLetter after the await, request resolved with data.content
LetterSuccess(req, content) ==
    /\ UNCHANGED <<chatVars, pdfVars>>
    /\ UNCHANGED sentLanguage
    /\ req \in letterPending
    /\ letterPending' = letterPending \ {req}
    /\ IF Mounted(req)
       THEN generatedLetter' = Some(content) /\ isGeneratingLetter' = FALSE
       ELSE UNCHANGED <<generatedLetter, isGeneratingLetter>>
    /\ statusWrites' = <<>>
    /\ lastOp' = [NoOp EXCEPT !.op = "letterSuccess", !.live = req.live]
    /\ toast' = Some("Letter generated successfully!")
    /\ download' = Null
    /\ UNCHANGED <<showUploader, uploads, uploadStatus, progress, results,
                   error, selectedLanguage, pending, timers>>

\* faulty variant of LetterFailure: the catch block also drops the letter
\* generated before, setGeneratedLetter(null)
LetterFailureClears(req) ==
    /\ UNCHANGED <<chatVars, pdfVars>>
    /\ UNCHANGED sentLanguage
    /\ req \in letterPending
    /\ letterPending' = letterPending \ {req}
    /\ IF req.live
       THEN isGeneratingLetter' = FALSE /\ generatedLetter' = <<>>
       ELSE UNCHANGED <<isGeneratingLetter, generatedLetter>>
    /\ statusWrites' = <<>>
    /\ lastOp' = [op |-> "letterFailure", size |-> -1, upload |-> 0,
                  live |-> req.live, payload |-> <<>>, err |-> <<>>,
                  throwAt |-> "none"]
    /\ toast' = <<"Failed to generate letter. Please try again.">>
    /\ download' = <<>>
    /\ UNCHANGED <<showUploader, uploads, uploadStatus, progress, results,
                   error, selectedLanguage, pending, timers>>

\* handleGenerateLetter after the await, request rejected (catch, finally)
LetterFailure(req) ==
    /\ UNCHANGED <<chatVars, pdfVars>>
    /\ UNCHANGED sentLanguage
    /\ req \in letterPending
    /\ letterPending' = letterPending \ {req}
    /\ IF Mounted(req)
       THEN isGeneratingLetter' = FALSE
       ELSE UNCHANGED isGeneratingLetter
    /\ statusWrites' = <<>>
    /\ lastOp' = [NoOp EXCEPT !.op = "letterFailure", !.live = req.live]
    /\ toast' = Some("Failed to generate letter. Please try again.")
    /\ download' = Null
    /\ UNCHANGED <<showUploader, uploads, uploadStatus, progress, results,
                   error, generatedLetter, selectedLanguage, pending, timers>>

----------------------------------------------------------------------------
(* DocumentUploader: report export *)

\* SUPPORTED_LANGUAGES.find(lang => lang.code === selectedLanguage)?.name
LanguageName(lang) ==
    CASE lang = "en" -> "English"
      [] lang = "es" -> "Espanol"
      [] lang = "de" -> "Deutsch"

\* severity.toUpperCase()
ToUpperCase(severity) ==
    CASE severity = "high" -> "HIGH"
      [] severity = "medium" -> "MEDIUM"
      [] severity = "low" -> "LOW"

\* filename.replace(/\.[^/.]+$/, '') on the file names of Payloads
StripExtension(filename) ==
    CASE filename = "lease.pdf" -> "lease"
      [] filename = "scan.png" -> "scan"

\* lease-analysis-<name><langSuffix>-<date>.<ext>, without the date
ReportFileName(r, lang, ext) ==
    <<"lease-analysis", StripExtension(r.filename),
      IF lang # "en" THEN lang ELSE "", ext>>

\* the places of the try block where the PDF library can throw
ThrowPoints == {"none", "jsPDF", "addText", "save"}

\* the addText calls of the try block, in order (texts before cleanText)
PdfAddTextCalls(r, lang) ==
    LET a == r.analysis
        clauses == a.unfair_clauses
        rights == a.tenant_rights
        recs == a.recommendations
    IN  <<[line |-> "title"],
          [line |-> "document", text |-> r.filename],
          [line |-> "language", text |-> LanguageName(lang)],
          [line |-> "score", score |-> a.overall_score],
          [line |-> "summary", text |-> a.plain_english_summary]>>
        \o (IF Len(clauses) > 0
            THEN <<[line |-> "clausesHeader", count |-> Len(clauses)]>>
                 \o [i \in 1..Len(clauses) |->
                       [line |-> "clause", index |-> i, clause |-> clauses[i],
                        priority |-> ToUpperCase(clauses[i].severity)]]
            ELSE <<>>)
        \o (IF Len(rights) > 0
            THEN <<[line |-> "rightsHeader"]>>
                 \o [i \in 1..Len(rights) |->
                       [line |-> "right", index |-> i, title |-> rights[i].title,
                        description |-> rights[i].description]]
            ELSE <<>>)
        \o (IF Len(recs) > 0
            THEN <<[line |-> "recommendationsHeader"]>>
                 \o [i \in 1..Len(recs) |->
                       [line |-> "recommendation", index |-> i, text |-> recs[i]]]
            ELSE <<>>)
        \o <<[line |-> "footer"]>>

\* unfair_clauses.map((clause, index) => `...`) of the text template
TextClauses(clauses) ==
    [i \in 1..Len(clauses) |->
       [line |-> "clause", index |-> i, issue |-> clauses[i].issue,
        priority |-> ToUpperCase(clauses[i].severity),
        clause_text |-> clauses[i].clause_text,
        explanation |-> clauses[i].explanation,
        recommendation |-> clauses[i].recommendation]]

\* tenant_rights.map((right, index) => `...`) of the text template
TextRights(rights) ==
    [i \in 1..Len(rights) |->
       [line |-> "right", index |-> i, title |-> rights[i].title,
        description |-> rights[i].description]]

\* faulty variant of TextRecommendations: the list cut to its first entry
TextRecommendationsFirst(recs) ==
    [i \in 1..(IF Len(recs) > 1 THEN 1 ELSE Len(recs)) |->
       [line |-> "recommendation", index |-> i, text |-> recs[i]]]

\* recommendations.map((rec, index) => `${index + 1}. ${rec}`)
TextRecommendations(recs) ==
    [i \in 1..Len(recs) |-> [line |-> "recommendation", index |-> i, text |-> recs[i]]]

\* the reportContent template of the catch block, line group by line group
TextReport(r, lang) ==
    LET a == r.analysis
        clauses == a.unfair_clauses
        rights == a.tenant_rights
        recs == a.recommendations
    IN  <<[line |-> "title"],
          [line |-> "document", text |-> r.filename],
          [line |-> "language", text |-> LanguageName(lang)],
          [line |-> "score", score |-> a.overall_score],
          [line |-> "summary", text |-> a.plain_english_summary],
          [line |-> "clausesHeader", count |-> Len(clauses)]>>
        \o TextClauses(clauses)
        \o <<[line |-> "rightsHeader"]>>
        \o TextRights(rights)
        \o <<[line |-> "recommendationsHeader"]>>
        \o TextRecommendations(recs)
        \o <<[line |-> "footer"]>>

\* the file handleDownloadReport hands to the browser when the try block
\* throws at throwAt ("none": it does not throw)
ReportDownload(r, lang, throwAt) ==
    IF throwAt = "none"
    THEN [kind |-> "pdf", name |-> ReportFileName(r, lang, "pdf"),
          lines |-> PdfAddTextCalls(r, lang)]
    ELSE [kind |-> "txt", name |-> ReportFileName(r, lang, "txt"),
          lines |-> TextReport(r, lang)]

\* handleDownloadReport; its button is part of the results view
DownloadReport(throwAt) ==
    /\ UNCHANGED <<chatVars, pdfVars>>
    /\ UNCHANGED sentLanguage
    /\ View # Null
    /\ download' = Some(ReportDownload(results[1], selectedLanguage, throwAt))
    /\ toast' = IF throwAt = "none"
                THEN Some("PDF report downloaded successfully!")
                ELSE Some("Failed to generate PDF. Falling back to text format.")
    /\ statusWrites' = <<>>
    /\ lastOp' = [NoOp EXCEPT !.op = "downloadReport", !.throwAt = throwAt]
    /\ UNCHANGED <<showUploader, uploads, uploadStatus, progress, results,
                   error, isGeneratingLetter, generatedLetter, selectedLanguage,
                   pending, timers, letterPending>>

----------------------------------------------------------------------------
(* The uploader and the page around it *)

Next ==
    \/ OpenUploader
    \/ CloseUploader
    \/ \E lang \in Languages : SelectLanguage(lang)
    \/ \E size \in FileSizes : OnDrop(size)
    \/ \E t \in timers : Tick(t)
    \/ \E req \in pending : \E payload \in Payloads : UploadSuccess(req, payload)
    \/ \E req \in pending : \E err \in UploadErrors : UploadFailure(req, err)
    \/ Retry
    \/ GenerateLetter
    \/ \E req \in letterPending : \E content \in LetterContents :
          LetterSuccess(req, content)
    \/ \E req \in letterPending : LetterFailure(req)
    \/ \E throwAt \in ThrowPoints : DownloadReport(throwAt)

Spec == Init /\ [][Next]_vars

\* every timer a DocumentUploader can start
AllTimers == [upload : 1..MaxUploads, live : BOOLEAN, clears : BOOLEAN]

\* setInterval(..., 200): a timer that is not cleared keeps firing
SpecFair == Spec /\ \A t \in AllTimers : WF_vars(Tick(t))

----------------------------------------------------------------------------
(* The chat widgets: ChatBot (floating, on every page) and AnalysisChatBot  *)
(* (inside the results view).  A message is its role and content; the      *)
(* timestamp, new Date(), is left out.                                     *)

Widgets == {"ChatBot", "AnalysisChatBot"}

\* what the user can submit: empty, blank, or a question
UserInputs == {"", "  ", "q1", "q2"}

\* message.trim() on UserInputs
Trim(message) == IF message \in {"", "  "} THEN "" ELSE message

\* response.data.response
Replies == {"a1"}

\* what a failed /api/chat request rejects with
ChatErrors == {NetworkError, HttpError(401, Null), HttpError(500, Null)}

\* the start index of messages.slice(-5)
HistoryStart == -5

\* Array.prototype.slice(start)
Slice(seq, start) ==
    LET len == Len(seq)
        k == IF start < 0
             THEN (IF len + start > 0 THEN len + start ELSE 0)
             ELSE (IF start < len THEN start ELSE len)
    IN  SubSeq(seq, k + 1, len)

\* AnalysisChatBot's leaseContext
LeaseContext(r) ==
    [filename |-> r.filename,
     overall_score |-> r.analysis.overall_score,
     problematic_clauses |->
        [i \in 1..Len(r.analysis.unfair_clauses) |->
           LET clause == r.analysis.unfair_clauses[i]
           IN  [issue |-> clause.issue, severity |-> clause.severity,
                clause_text |-> clause.clause_text,
                explanation |-> clause.explanation,
                recommendation |-> clause.recommendation]],
     tenant_rights |-> r.analysis.tenant_rights,
     recommendations |-> r.analysis.recommendations,
     summary |-> r.analysis.plain_english_summary]

\* faulty variant of MessageContext: the context is never appended
MessageContextNone(w, r) == Null

\* the context a widget appends to the message text, if it appends one:
\* `${message}\n\nLEASE CONTEXT: ${JSON.stringify(leaseContext)}`
MessageContext(w, r) ==
    IF w = "AnalysisChatBot" THEN Some(LeaseContext(r[1])) ELSE Null

\* the document_id field of the request, if the widget sends one
RequestDocumentId(w, r) ==
    IF w = "AnalysisChatBot" THEN Some(r[1].document_id) ELSE Null

\* faulty variants of ChatHistory: the slice left out, and slice(-4)
ChatHistoryAll(msgs) == msgs
ChatHistoryFour(msgs) == Slice(msgs, HistoryStart + 1)

\* faulty variant of ChatHistory: the local error replies filtered out
ChatHistoryNoErrors(msgs) ==
    SelectSeq(Slice(msgs, -5),
              LAMBDA m : m.content \notin
                 {"Please log in to use the chat feature.",
                  "Sorry, I'm having trouble responding right now. Please try again."})

\* the history a request carries, given the messages of the render it
\* was sent from
ChatHistory(msgs) == Slice(msgs, HistoryStart)

\* the body of the /api/chat request
ChatRequest(w, r, message, msgs) ==
    [message |-> [text |-> message, context |-> MessageContext(w, r)],
     document_id |-> RequestDocumentId(w, r),
     chat_history |-> ChatHistory(msgs)]

\* error.response?.status === 401 ? ... : ...
ChatErrorMessage(err) ==
    IF err.response # Null /\ err.response[1].status = 401
    THEN "Please log in to use the chat feature."
    ELSE "Sorry, I'm having trouble responding right now. Please try again."

\* faulty variant of InputDisabled: the form stays enabled during a request
InputNeverDisabled == FALSE

\* <input disabled={isLoading}>, <button disabled={isLoading || ...}>
InputDisabled == isLoading

\* faulty variant of AppendMessage: the list is replaced by the new message
ReplaceMessages(prev, message) == <<message>>

\* setMessages(prev => [...prev, message])
AppendMessage(prev, message) == Append(prev, message)

\* a page with one chat widget of either kind, freshly mounted
ChatInit ==
    /\ widget \in Widgets
    /\ analysisResults \in
         IF widget = "AnalysisChatBot" THEN {Some(p) : p \in Payloads} ELSE {Null}
    /\ isOpen = FALSE
    /\ messages = <<>>
    /\ isLoading = FALSE
    /\ chatPending = Null
    /\ chatOp = "init"

\* the toggle button (AnalysisChatBot) or the open and X buttons (ChatBot)
ToggleChat ==
    /\ UNCHANGED <<uploaderVars, pdfVars>>
    /\ isOpen' = ~isOpen
    /\ chatOp' = "toggle"
    /\ UNCHANGED <<widget, analysisResults, messages, isLoading, chatPending>>

\* sendMessage up to the await, from the form (disabled while isLoading) or
\* from a suggested question (shown while there are no messages)
SendMessage(message) ==
    /\ UNCHANGED <<uploaderVars, pdfVars>>
    /\ isOpen
    /\ ~InputDisabled \/ Len(messages) = 0
    /\ chatOp' = "send"
    /\ IF Trim(message) = ""
       THEN UNCHANGED <<messages, isLoading, chatPending>>
       ELSE /\ Len(messages) < MaxMessages
            /\ messages' = AppendMessage(messages,
                                        [role |-> "user", content |-> message])
            /\ isLoading' = TRUE
            /\ chatPending' =
                 Some(ChatRequest(widget, analysisResults, message, messages))
    /\ UNCHANGED <<widget, analysisResults, isOpen>>

\* sendMessage after the await, request resolved
ChatReply(reply) ==
    /\ UNCHANGED <<uploaderVars, pdfVars>>
    /\ chatPending # Null
    /\ chatPending' = Null
    /\ messages' = AppendMessage(messages,
                               [role |-> "assistant", content |-> reply])
    /\ isLoading' = FALSE
    /\ chatOp' = "reply"
    /\ UNCHANGED <<widget, analysisResults, isOpen>>

\* sendMessage after the await, request rejected (catch, finally)
ChatFailure(err) ==
    /\ UNCHANGED <<uploaderVars, pdfVars>>
    /\ chatPending # Null
    /\ chatPending' = Null
    /\ messages' = AppendMessage(messages,
                               [role |-> "assistant",
                                content |-> ChatErrorMessage(err)])
    /\ isLoading' = FALSE
    /\ chatOp' = "failure"
    /\ UNCHANGED <<widget, analysisResults, isOpen>>

NextChat ==
    \/ ToggleChat
    \/ \E message \in UserInputs : SendMessage(message)
    \/ \E reply \in Replies : ChatReply(reply)
    \/ \E err \in ChatErrors : ChatFailure(err)

\* a page whose uploader is never opened
InitChat == UploaderInit /\ ChatInit /\ PdfIdle

SpecChat == InitChat /\ [][NextChat]_vars

----------------------------------------------------------------------------
(* handleDownloadReport: the layout of the PDF, call by call.  Lengths are  *)
(* in the unit of the document, millimetres.                                *)

\* pdf.internal.pageSize.getHeight() of new jsPDF(): portrait a4
pageHeight == 297
margin == 20
lineHeight == 6

\* the gap addText leaves after a block, and the one addSectionBreak adds
BlockGap == 3
SectionGap == 5

\* lines pdf.splitTextToSize can return for a text taken from the payload
MaxLines == 43
LineCounts == 1..MaxLines

RECURSIVE Repeated(_, _)
Repeated(calls, n) == IF n = 0 THEN <<>> ELSE calls \o Repeated(calls, n - 1)

\* the addText and addSectionBreak calls of the try block for results r, in
\* order; wraps: the text holds a string of the payload, so it can wrap to
\* any number of lines (the fixed texts fit one line)
PdfCalls(r) ==
    LET a == r.analysis
        Fixed == [op |-> "addText", wraps |-> FALSE]
        Wrapped == [op |-> "addText", wraps |-> TRUE]
        Break == [op |-> "addSectionBreak", wraps |-> FALSE]
    IN  <<Fixed, Break,
          Fixed, Wrapped, Fixed, Break,
          Fixed, Break,
          Fixed, Wrapped, Break>>
        \o (IF Len(a.unfair_clauses) > 0
            THEN <<Fixed>>
                 \o Repeated(<<Wrapped, Wrapped, Wrapped, Wrapped, Break>>,
                             Len(a.unfair_clauses))
            ELSE <<>>)
        \o (IF Len(a.tenant_rights) > 0
            THEN <<Fixed>> \o Repeated(<<Wrapped, Wrapped>>, Len(a.tenant_rights))
                 \o <<Break>>
            ELSE <<>>)
        \o (IF Len(a.recommendations) > 0
            THEN <<Fixed>> \o Repeated(<<Wrapped>>, Len(a.recommendations))
                 \o <<Break>>
            ELSE <<>>)
        \o <<Fixed, Fixed>>

\* addText: if (yPosition + lines.length * lineHeight > pageHeight - margin)
NeedsNewPage(y, lines) == y + lines * lineHeight > pageHeight - margin

\* addText: the y that pdf.text(lines, margin, yPosition) is called with
TextStart(y, lines) == IF NeedsNewPage(y, lines) THEN margin ELSE y

\* handleDownloadReport enters its try block: let yPosition = margin
InitPdf ==
    /\ UploaderInit
    /\ ChatIdle
    /\ pdfInput \in {Some(p) : p \in Payloads}
    /\ pdfStep = 1
    /\ yPosition = margin

\* the next call of the try block
PdfCall ==
    IF pdfInput # Null /\ pdfStep \in 1..Len(PdfCalls(pdfInput[1]))
    THEN PdfCalls(pdfInput[1])[pdfStep]
    ELSE [op |-> "done", wraps |-> FALSE]

\* one addText call whose text wraps to the given number of lines
addText(lines) ==
    /\ UNCHANGED <<uploaderVars, chatVars>>
    /\ PdfCall.op = "addText"
    /\ PdfCall.wraps \/ lines = 1
    /\ yPosition' = TextStart(yPosition, lines) + lines * lineHeight + BlockGap
    /\ pdfStep' = pdfStep + 1
    /\ UNCHANGED pdfInput

\* one addSectionBreak call
addSectionBreak ==
    /\ UNCHANGED <<uploaderVars, chatVars>>
    /\ PdfCall.op = "addSectionBreak"
    /\ yPosition' = yPosition + SectionGap
    /\ pdfStep' = pdfStep + 1
    /\ UNCHANGED pdfInput

NextPdf ==
    \/ \E lines \in LineCounts : addText(lines)
    \/ addSectionBreak

SpecPdf == InitPdf /\ [][NextPdf]_vars

----------------------------------------------------------------------------
(* Properties of the upload flow, checked under Spec *)

\* C1: a file larger than 10 MB dropped on the idle uploader issues no
\* /api/upload-document request and leaves status (idle), progress, results
\* and error as they were.
C1_OversizedFileRejected ==
    [][(lastOp'.op = "onDrop" /\ lastOp'.size > 10 * 1024 * 1024)
         => /\ uploadStatus = "idle"
            /\ pending' = pending
            /\ uploads' = uploads
            /\ timers' = timers
            /\ uploadStatus' = uploadStatus
            /\ progress' = progress
            /\ results' = results
            /\ error' = error]_vars

\* C1 witness: an oversized file has just been dropped on an idle uploader
\* that had already been through a failed upload.
C1_Witness ==
    /\ lastOp.op = "onDrop"
    /\ lastOp.size > 10 * 1024 * 1024
    /\ showUploader
    /\ uploadStatus = "idle"
    /\ uploads = 1
    /\ toast # Null

StatusEdges ==
    {<<"idle", "uploading">>, <<"uploading", "processing">>,
     <<"processing", "complete">>, <<"processing", "error">>,
     <<"error", "idle">>}

\* C2: while a modal stays open, every write of the upload status follows
\* idle -> uploading -> processing -> complete | error, error -> idle; the
\* step uploading -> processing is taken by onDrop itself, before any
\* response, and idle is re-entered only by the retry button.
C2_StatusTransitions ==
    [][(showUploader /\ showUploader')
         => LET path == <<uploadStatus>> \o statusWrites'
            IN  /\ uploadStatus' = path[Len(path)]
                /\ \A i \in 1..Len(statusWrites') :
                     /\ <<path[i], path[i + 1]>> \in StatusEdges
                     /\ path[i + 1] = "processing" => lastOp'.op = "onDrop"
                     /\ path[i + 1] = "idle" => lastOp'.op = "retry"]_vars

\* C2 witness: a modal whose first upload failed and whose second upload,
\* after a retry, completed.
C2_Witness ==
    /\ showUploader
    /\ uploadStatus = "complete"
    /\ statusWrites = <<"complete">>
    /\ \E t \in timers : t.live /\ t.upload < uploads

\* the payload's clause that a rendered clause card shows
CardClause(card) ==
    [clause_text |-> card.clause_text, issue |-> card.issue,
     severity |-> card.priority[3], explanation |-> card.explanation,
     recommendation |-> card.recommendation]

\* the view shows exactly the clauses and the rights of payload, in order
ShowsClausesAndRights(view, payload) ==
    /\ Len(view.clauses) = Len(payload.analysis.unfair_clauses)
    /\ \A i \in 1..Len(view.clauses) :
         CardClause(view.clauses[i]) = payload.analysis.unfair_clauses[i]
    /\ Len(view.rights) = Len(payload.analysis.tenant_rights)
    /\ \A i \in 1..Len(view.rights) :
         /\ view.rights[i].title = payload.analysis.tenant_rights[i].title
         /\ view.rights[i].description =
              payload.analysis.tenant_rights[i].description

\* C3 as claimed: a successful response in processing makes the status
\* complete with results = payload, and the results view renders exactly the
\* payload's unfair clauses, tenant rights and recommendations, in order.
C3_RendersPayloadRecommendations ==
    [][(lastOp'.op = "uploadSuccess" /\ lastOp'.live /\ showUploader
        /\ uploadStatus = "processing")
         => /\ uploadStatus' = "complete"
            /\ results' = lastOp'.payload
            /\ View' # Null
            /\ ShowsClausesAndRights(View'[1], lastOp'.payload[1])
            /\ View'[1].recommendations =
                 lastOp'.payload[1].analysis.recommendations]_vars

\* C3 as amended: a successful response in processing makes the status
\* complete with results = payload, and the results view renders exactly the
\* payload's unfair clauses and tenant rights, in order; its recommendation
\* list is four fixed translated tips, whatever the payload recommends.
C3_RendersPayloadClausesAndRights ==
    [][(lastOp'.op = "uploadSuccess" /\ lastOp'.live /\ showUploader
        /\ uploadStatus = "processing")
         => /\ uploadStatus' = "complete"
            /\ results' = lastOp'.payload
            /\ View' # Null
            /\ ShowsClausesAndRights(View'[1], lastOp'.payload[1])
            /\ Len(View'[1].recommendations) = 4
            /\ \A i \in 1..4 : \A p \in Payloads :
                 \A j \in 1..Len(p.analysis.recommendations) :
                    View'[1].recommendations[i] # p.analysis.recommendations[j]]_vars

\* C3 witness: the payload with four clauses, two rights and two
\* recommendations has just arrived and is on screen.
C3_Witness ==
    /\ lastOp.op = "uploadSuccess"
    /\ lastOp.live
    /\ uploadStatus = "complete"
    /\ View # Null
    /\ Len(View[1].clauses) = 4
    /\ Len(View[1].rights) = 2
    /\ Len(results[1].analysis.recommendations) = 2

\* C4 as claimed: a failed request in processing makes the status error,
\* leaves results null, and stores the body's detail when the body has one,
\* the default message otherwise.
C4_StoresDetailWhenPresent ==
    [][(lastOp'.op = "uploadFailure" /\ lastOp'.live /\ showUploader
        /\ uploadStatus = "processing")
         => LET err == lastOp'.err[1]
                detail == IF err.response = Null THEN Null
                          ELSE err.response[1].data.detail
            IN  /\ uploadStatus' = "error"
                /\ results' = Null
                /\ error' = IF detail # Null THEN detail
                            ELSE Some(DefaultUploadError)]_vars

\* C4 as amended: a failed request in processing makes the status error,
\* leaves results null, and stores the body's detail when the body has one
\* that is not the empty string, the default message otherwise.
C4_StoresNonEmptyDetail ==
    [][(lastOp'.op = "uploadFailure" /\ lastOp'.live /\ showUploader
        /\ uploadStatus = "processing")
         => LET err == lastOp'.err[1]
                detail == IF err.response = Null THEN Null
                          ELSE err.response[1].data.detail
            IN  /\ uploadStatus' = "error"
                /\ results' = Null
                /\ error' = IF detail # Null /\ detail # Some("") THEN detail
                            ELSE Some(DefaultUploadError)]_vars

\* C4 witness: a response with a non-empty detail has just failed the upload.
C4_Witness ==
    /\ lastOp.op = "uploadFailure"
    /\ lastOp.live
    /\ uploadStatus = "error"
    /\ lastOp.err[1].response # Null
    /\ error = lastOp.err[1].response[1].data.detail
    /\ error # Some(DefaultUploadError)

\* C5: the retry button, available in the error state, sets the status to
\* idle, progress to 0 and error to null, and issues no request.
C5_RetryResets ==
    [][lastOp'.op = "retry"
         => /\ uploadStatus = "error"
            /\ uploadStatus' = "idle"
            /\ progress' = 0
            /\ error' = Null
            /\ pending' = pending
            /\ letterPending' = letterPending
            /\ uploads' = uploads]_vars

\* C5 witness: retry has just been pressed after a failure that left its
\* progress timer running.
C5_Witness ==
    /\ lastOp.op = "retry"
    /\ uploadStatus = "idle"
    /\ progress = 0
    /\ error = Null
    /\ timers # {}

----------------------------------------------------------------------------
(* Properties of the chat widgets, checked under SpecChat *)

\* C6: in either chat widget, after any sequence of sends, replies and
\* failures, the chat_history of every /api/chat request has at most 5
\* messages.
C6_HistoryAtMostFive ==
    chatPending # Null => Len(chatPending[1].chat_history) <= 5

\* C6 witness: a request sent with more than 5 messages stored carries 5.
C6_Witness ==
    /\ chatPending # Null
    /\ Len(messages) > 6
    /\ Len(chatPending[1].chat_history) = 5

\* C7: a request sent when the widget held n messages carries exactly the
\* last min(5, n) of them, in order; the message being sent is stored last
\* and is not taken into the history.
C7_HistoryIsLastFivePrior ==
    chatPending # Null =>
        LET n == Len(messages) - 1
            k == IF n < 5 THEN n ELSE 5
            history == chatPending[1].chat_history
        IN  /\ n >= 0
            /\ messages[n + 1] =
                 [role |-> "user", content |-> chatPending[1].message.text]
            /\ Len(history) = k
            /\ \A i \in 1..k : history[i] = messages[n - k + i]

\* C7 witness: a request sent with 6 messages stored, the oldest of which
\* is left out of the history.
C7_Witness ==
    /\ chatPending # Null
    /\ Len(messages) = 7
    /\ chatPending[1].chat_history[1] = messages[2]
    /\ messages[1] # messages[2]

\* C8 as claimed: every /api/chat request of any chat widget carries a
\* snapshot of the current AnalysisResult.
C8_EveryRequestCarriesContext ==
    chatPending # Null => chatPending[1].message.context # Null

\* C8 as amended: every /api/chat request of AnalysisChatBot carries, with
\* the message and the history, the document id and a snapshot of its
\* AnalysisResult (file name, score, summary, clauses, rights and
\* recommendations); the requests of ChatBot, which has no AnalysisResult,
\* carry the message and the history only.
C8_AnalysisChatCarriesContext ==
    chatPending # Null =>
        LET request == chatPending[1]
        IN  IF widget = "AnalysisChatBot"
            THEN /\ request.message.context # Null
                 /\ request.document_id = Some(analysisResults[1].document_id)
                 /\ LET context == request.message.context[1]
                        r == analysisResults[1]
                    IN  /\ context.filename = r.filename
                        /\ context.overall_score = r.analysis.overall_score
                        /\ context.summary = r.analysis.plain_english_summary
                        /\ context.problematic_clauses = r.analysis.unfair_clauses
                        /\ context.tenant_rights = r.analysis.tenant_rights
                        /\ context.recommendations = r.analysis.recommendations
            ELSE /\ request.message.context = Null
                 /\ request.document_id = Null

\* C8 witness: AnalysisChatBot sends its second question about a lease with
\* clauses, rights and recommendations.
C8_Witness ==
    /\ chatPending # Null
    /\ widget = "AnalysisChatBot"
    /\ Len(messages) = 3
    /\ Len(analysisResults[1].analysis.unfair_clauses) > 0

----------------------------------------------------------------------------
(* Properties of the report export and the results view, checked under Spec *)

\* the lines of a text report that have the given kind
LinesOf(lines, kind) == SelectSeq(lines, LAMBDA l : l.line = kind)

\* C9: when the PDF library throws, at whichever step, the export downloads
\* a text file that has the file name, the score, the summary and every
\* unfair clause, tenant right and recommendation of the results, in order.
C9_TextFallbackKeepsContent ==
    (lastOp.op = "downloadReport" /\ lastOp.throwAt # "none") =>
        /\ download # Null
        /\ download[1].kind = "txt"
        /\ LET lines == download[1].lines
               r == results[1]
               a == r.analysis
               clauses == LinesOf(lines, "clause")
               rights == LinesOf(lines, "right")
               recs == LinesOf(lines, "recommendation")
           IN  /\ \E i \in 1..Len(lines) :
                    lines[i].line = "document" /\ lines[i].text = r.filename
               /\ \E i \in 1..Len(lines) :
                    lines[i].line = "score" /\ lines[i].score = a.overall_score
               /\ \E i \in 1..Len(lines) :
                    /\ lines[i].line = "summary"
                    /\ lines[i].text = a.plain_english_summary
               /\ Len(clauses) = Len(a.unfair_clauses)
               /\ \A i \in 1..Len(clauses) :
                    /\ clauses[i].issue = a.unfair_clauses[i].issue
                    /\ clauses[i].clause_text = a.unfair_clauses[i].clause_text
                    /\ clauses[i].explanation = a.unfair_clauses[i].explanation
                    /\ clauses[i].recommendation =
                         a.unfair_clauses[i].recommendation
                    /\ <<a.unfair_clauses[i].severity, clauses[i].priority>> \in
                         {<<"high", "HIGH">>, <<"medium", "MEDIUM">>,
                          <<"low", "LOW">>}
               /\ Len(rights) = Len(a.tenant_rights)
               /\ \A i \in 1..Len(rights) :
                    /\ rights[i].title = a.tenant_rights[i].title
                    /\ rights[i].description = a.tenant_rights[i].description
               /\ Len(recs) = Len(a.recommendations)
               /\ \A i \in 1..Len(recs) : recs[i].text = a.recommendations[i]

\* C9 witness: the PDF library threw in pdf.save, after every addText, and
\* the text report of the lease with four clauses was downloaded.
C9_Witness ==
    /\ lastOp.op = "downloadReport"
    /\ lastOp.throwAt = "save"
    /\ download # Null
    /\ download[1].kind = "txt"
    /\ Len(results[1].analysis.unfair_clauses) = 4
    /\ Len(results[1].analysis.recommendations) = 2

\* the classes of a badge of the given hue
BadgeClasses(hue) ==
    "text-" \o hue \o "-600 bg-" \o hue \o "-50 border-" \o hue \o "-200"

\* C10: in the results view the badge of every clause is red for high,
\* yellow for medium and blue for low, so clauses of the same severity have
\* the same colour.
C10_SeverityBadgeColour ==
    View # Null =>
        LET cards == View[1].clauses
            clauses == results[1].analysis.unfair_clauses
        IN  /\ Len(cards) = Len(clauses)
            /\ \A i \in 1..Len(cards) :
                 /\ clauses[i].severity = "high" =>
                      cards[i].badge = BadgeClasses("red")
                 /\ clauses[i].severity = "medium" =>
                      cards[i].badge = BadgeClasses("yellow")
                 /\ clauses[i].severity = "low" =>
                      cards[i].badge = BadgeClasses("blue")
                 /\ cards[i].className = cards[i].badge
            /\ \A i, j \in 1..Len(cards) :
                 clauses[i].severity = clauses[j].severity =>
                    cards[i].badge = cards[j].badge

\* C10 witness: the view shows clauses of all three severities, two of them
\* high.
C10_Witness ==
    /\ View # Null
    /\ {View[1].clauses[i].priority[3] : i \in 1..Len(View[1].clauses)} =
         {"high", "medium", "low"}
    /\ \E i, j \in 1..Len(View[1].clauses) :
         i # j /\ View[1].clauses[i].priority[3] = View[1].clauses[j].priority[3]

----------------------------------------------------------------------------
(* Properties of the modal while it stays open, checked under Spec *)

\* C11: once the results are set (status complete, results non-null), no
\* later step taken while that modal stays open (user action, timer tick or
\* response) replaces the results or moves the status out of complete.
C11_CompleteIsStable ==
    [][(showUploader /\ showUploader' /\ uploadStatus = "complete")
         => /\ results # Null
            /\ uploadStatus' = "complete"
            /\ results' = results]_vars

\* C11 witness: the second upload of the page has completed in a modal while
\* the response of the first, started in a modal closed since, is still
\* outstanding, and a step has been taken in the results view since.
C11_Witness ==
    /\ showUploader
    /\ uploadStatus = "complete"
    /\ results # Null
    /\ uploads = 2
    /\ \E r \in pending : r.upload = 1 /\ ~r.live
    /\ lastOp.op \in {"generateLetter", "downloadReport", "tick"}

\* the statuses of the loading view
Spinner == {"uploading", "processing"}

\* C12 as stated: while an upload request is outstanding (never answered),
\* no action in the page gets the user back to a usable idle uploader.
C12_NoIdleUploaderWhileOutstanding ==
    pending # {} => ~(showUploader /\ uploadStatus = "idle")

\* C12, amended: while an upload request of the open modal is outstanding,
\* every step that neither answers it nor closes the modal finds and leaves
\* the uploader in the spinner state (uploading / processing).
C12_SpinnerWhileModalOpen ==
    [][\A r \in pending :
         (r.live /\ showUploader' /\ \E q \in pending' : q.upload = r.upload)
           => /\ uploadStatus \in Spinner
              /\ uploadStatus' \in Spinner
              /\ \E q \in pending' : q.upload = r.upload /\ q.live]_vars

\* C12 witness: the request of the open modal is still unanswered after its
\* progress timer has run to 90 and stopped; the spinner is still shown.
C12_Witness ==
    /\ showUploader
    /\ uploadStatus \in Spinner
    /\ \E r \in pending : r.live
    /\ progress = 90
    /\ ~\E t \in timers : t.live
    /\ lastOp.op = "tick"

\* the upload requests in flight that the mounted modal issued
LiveRequests(reqs) == {r \in reqs : r.live}

\* the uploads a set of requests or timers belongs to
UploadsOf(set) == {x.upload : x \in set}

\* C13: an open modal has at most one /api/upload-document request in
\* flight: while one is outstanding the status is not idle, and a new one is
\* started only by a step that found the status idle.
C13_OneUploadPerModal ==
    /\ [](/\ Cardinality(LiveRequests(pending)) <= 1
          /\ LiveRequests(pending) # {} => (showUploader /\ uploadStatus # "idle"))
    /\ [][UploadsOf(pending') \ UploadsOf(pending) # {}
            => /\ uploadStatus = "idle"
               /\ LiveRequests(pending) = {}]_vars

\* C13 witness: the open modal has its one request in flight while the
\* request of a modal closed earlier is still unanswered as well.
C13_Witness ==
    /\ showUploader
    /\ Cardinality(pending) = 2
    /\ Cardinality(LiveRequests(pending)) = 1
    /\ uploadStatus = "processing"
    /\ lastOp.op = "onDrop"

\* C14: progress is written by one upload flow at a time: once a later
\* upload has been started in the same modal, no timer created by an
\* earlier upload of that modal modifies progress.
C14_OnlyLatestUploadWritesProgress ==
    [][(lastOp'.op = "tick" /\ lastOp'.live /\ progress' # progress)
         => lastOp'.upload = uploads]_vars

\* the requests a step issues
Issued(before, after) == UploadsOf(after) \ UploadsOf(before)

----------------------------------------------------------------------------
(* Properties of the chat history, checked under SpecChat *)

\* C16: a chat widget's message list is append-only: every step (sending,
\* a reply, a failed request, opening or closing the window) keeps the
\* messages stored before it, unchanged and in order, and adds new ones
\* only at the end.
C16_MessagesAppendOnly ==
    [][/\ Len(messages') >= Len(messages)
       /\ SubSeq(messages', 1, Len(messages)) = messages]_vars

\* C16 witness: the list holds a question, the reply of a failed request
\* and a later exchange, and the window has just been toggled.
C16_Witness ==
    /\ Len(messages) >= 4
    /\ chatOp = "toggle"
    /\ messages[2].content \in {ChatErrorMessage(e) : e \in ChatErrors}
    /\ messages[4].content \in Replies

----------------------------------------------------------------------------
(* Properties of letter generation and report export *)

\* C17: a failed /api/generate-letter request of the open modal is surfaced
\* only as a notification: the status is complete before and after, the
\* results and the letter generated before are unchanged, and of the
\* component's state only isGeneratingLetter changes, from true to false.
C17_LetterFailureOnlyNotifies ==
    [][(lastOp'.op = "letterFailure" /\ lastOp'.live)
         => /\ toast' = Some("Failed to generate letter. Please try again.")
            /\ uploadStatus = "complete"
            /\ uploadStatus' = "complete"
            /\ results # Null
            /\ results' = results
            /\ generatedLetter' = generatedLetter
            /\ isGeneratingLetter
            /\ ~isGeneratingLetter'
            /\ progress' = progress
            /\ error' = error
            /\ selectedLanguage' = selectedLanguage
            /\ showUploader' = showUploader]_vars

\* C17 witness: a letter request has just failed in a results view that
\* still shows the letter generated by an earlier request.
C17_Witness ==
    /\ lastOp.op = "letterFailure"
    /\ lastOp.live
    /\ showUploader
    /\ uploadStatus = "complete"
    /\ generatedLetter # Null
    /\ ~isGeneratingLetter
    /\ toast # Null

\* C18, checked under SpecPdf: every text block is placed within the page
\* content height: for each addText call, the y the block is placed at
\* (after the page-break check) plus its wrapped lines times lineHeight is
\* at most pageHeight - margin, whatever the number of lines, and the
\* vertical cursor is never above the top margin.  (addText leaves the
\* cursor at that sum plus BlockGap.)
C18_TextBlockWithinPage ==
    /\ [](pdfInput # Null => yPosition >= margin)
    /\ [][PdfCall.op = "addText"
            => yPosition' - BlockGap <= pageHeight - margin]_vars

\* C19 as stated: at most one /api/generate-letter request is in flight at
\* a time.
C19_OneLetterRequestAtATime == Cardinality(letterPending) <= 1

\* C19, amended: an open modal has at most one /api/generate-letter request
\* in flight: isGeneratingLetter is true exactly while a request of that
\* modal is outstanding, a request is started only while it is false, and
\* it returns to false when that request settles, succeeded or failed.
C19_OneLetterRequestPerModal ==
    /\ [](/\ Cardinality(LiveRequests(letterPending)) <= 1
          /\ isGeneratingLetter <=> LiveRequests(letterPending) # {}
          /\ isGeneratingLetter => showUploader)
    /\ [][/\ lastOp'.op = "generateLetter"
               => /\ ~isGeneratingLetter /\ isGeneratingLetter'
                  /\ Cardinality(letterPending') = Cardinality(letterPending) + 1
          /\ (lastOp'.op \in {"letterSuccess", "letterFailure"} /\ lastOp'.live)
               => isGeneratingLetter /\ ~isGeneratingLetter'
          /\ Cardinality(letterPending') > Cardinality(letterPending)
               => lastOp'.op = "generateLetter"]_vars

\* C19 witness: the open modal is generating a letter while the letter
\* request of a modal closed earlier is still unanswered.
C19_Witness ==
    /\ showUploader
    /\ isGeneratingLetter
    /\ Cardinality(letterPending) = 2
    /\ Cardinality(LiveRequests(letterPending)) = 1
    /\ lastOp.op = "generateLetter"

\* C20: generatedLetter is non-null only if the status is complete and
\* results is non-null, and a letter request is never issued while results
\* is null.
C20_LetterOnlyWithResults ==
    /\ [](generatedLetter # Null
            => (showUploader /\ uploadStatus = "complete" /\ results # Null))
    /\ [][lastOp'.op = "generateLetter"
            => /\ results # Null
               /\ uploadStatus = "complete"
               /\ \A req \in letterPending' \ letterPending :
                     req.body = LetterRequest(results[1], selectedLanguage)]_vars

\* C20 witness: the letter request of the open modal has just resolved and
\* its letter is stored next to the results of the page's second upload.
C20_Witness ==
    /\ lastOp.op = "letterSuccess"
    /\ lastOp.live
    /\ generatedLetter # Null
    /\ results # Null
    /\ uploadStatus = "complete"
    /\ uploads = 2

----------------------------------------------------------------------------
(* Properties of the progress timer and of the uploader's fields *)

\* the progress timers of the mounted modal that are not cleared
LiveTimers == {t \in timers : t.live}

\* C21: the progress timer an upload starts is stopped by the time that
\* upload leaves processing, on success and on failure alike: no progress
\* timer of the open modal is active while its status is idle, error or
\* complete.
C21_NoTimerOutsideProcessing ==
    (showUploader /\ uploadStatus \in {"idle", "error", "complete"})
       => LiveTimers = {}

\* C22: whenever the status of the open modal is complete, progress is 100,
\* after any sequence of uploads, failures, retries and timer ticks in that
\* modal.
C22_CompleteMeansHundred ==
    (showUploader /\ uploadStatus = "complete") => progress = 100

\* C23: in every reachable state progress is within 0..100, and while the
\* status is uploading or processing it is at most 90, however many ticks
\* occur and however many timers are ticking.
C23_ProgressBounds ==
    /\ progress \in 0..100
    /\ uploadStatus \in Spinner => progress <= 90

\* C23 witness: two timers of the open modal are ticking during its second
\* upload, and a tick has just found progress at 90 or moved it there.
C23_Witness ==
    /\ showUploader
    /\ uploadStatus = "processing"
    /\ Cardinality(LiveTimers) = 2
    /\ progress = 90
    /\ lastOp.op = "tick"

\* C24: the data fields agree with the status in every reachable state:
\* error is non-null exactly when the status is error, and results is
\* non-null exactly when the status is complete.
C24_FieldsAgreeWithStatus ==
    /\ error # Null <=> uploadStatus = "error"
    /\ results # Null <=> uploadStatus = "complete"

\* C24 witness: the second upload of a modal has just succeeded after its
\* first one failed (whose timer is still there): results are held and the
\* error of the first upload is gone.
C24_Witness ==
    /\ showUploader
    /\ lastOp.op = "uploadSuccess"
    /\ lastOp.upload = 2
    /\ \E t \in LiveTimers : t.upload = 1
    /\ uploadStatus = "complete"
    /\ results # Null
    /\ error = Null

\* C25: the selected language of an open modal changes only while its
\* status is idle, so the language sent with /api/generate-letter and the
\* language used for the exported report (file name and Language line) are
\* the language sent with the /api/upload-document request that produced
\* the results held.
C25_LanguageFixedAfterUpload ==
    /\ [](View # Null => sentLanguage = Some(selectedLanguage))
    /\ [][/\ (showUploader /\ showUploader' /\ selectedLanguage' # selectedLanguage)
               => (uploadStatus = "idle" /\ uploadStatus' = "idle")
          /\ lastOp'.op = "generateLetter"
               => \A req \in letterPending' \ letterPending :
                     req.body.language = sentLanguage[1]
          /\ lastOp'.op = "downloadReport"
               => /\ download'[1].name[3] =
                       (IF sentLanguage[1] # "en" THEN sentLanguage[1] ELSE "")
                  /\ download'[1].lines[3] =
                       [line |-> "language",
                        text |-> LanguageName(sentLanguage[1])]]_vars

\* C25 witness: in one modal a first upload sent in English failed, the
\* user switched to Spanish and uploaded again; a letter has been requested
\* and the report has just been exported, both in Spanish.
C25_Witness ==
    /\ showUploader
    /\ lastOp.op = "downloadReport"
    /\ uploads = 2
    /\ \E t \in LiveTimers : t.upload = 1
    /\ selectedLanguage = "es"
    /\ sentLanguage = Some("es")
    /\ \E req \in letterPending : req.live /\ req.body.language = "es"
    /\ download # Null /\ download[1].name[3] = "es"

----------------------------------------------------------------------------
(* Further properties of the chat widgets, checked under SpecChat *)

\* the role the i-th stored message has when the roles alternate
RoleAt(i) == IF i % 2 = 1 THEN "user" ELSE "assistant"

\* C26: the stored messages of a chat widget alternate user, assistant,
\* starting with a user message, and the settling of a request adds exactly
\* one assistant message after the user message it belongs to (the backend
\* reply on success, the local error reply on failure), before any further
\* user message is stored.
C26_MessagesAlternate ==
    /\ [](/\ \A i \in 1..Len(messages) : messages[i].role = RoleAt(i)
          /\ isLoading <=> Len(messages) % 2 = 1
          /\ isLoading <=> chatPending # Null)
    /\ [][/\ chatOp' \in {"reply", "failure"}
               => /\ Len(messages') = Len(messages) + 1
                  /\ messages[Len(messages)].role = "user"
                  /\ messages'[Len(messages')].role = "assistant"
                  /\ messages'[Len(messages')].content \in
                       IF chatOp' = "reply" THEN Replies
                       ELSE {ChatErrorMessage(e) : e \in ChatErrors}
          /\ (Len(messages') > Len(messages) /\ chatOp' = "send")
               => (Len(messages) % 2 = 0 /\ ~isLoading)]_vars

\* C26 witness: two exchanges are stored, the first answered by the
\* backend and the second, just now, by the local error reply.
C26_Witness ==
    /\ Len(messages) = 4
    /\ chatOp = "failure"
    /\ messages[2].content \in Replies
    /\ messages[4].content \in {ChatErrorMessage(e) : e \in ChatErrors}
    /\ ~isLoading

----------------------------------------------------------------------------
(* Responses that arrive after their modal was closed *)

\* the state of the DocumentUploader instance on screen
InstanceState ==
    <<showUploader, uploadStatus, progress, results, error, selectedLanguage,
      isGeneratingLetter, generatedLetter>>

\* C27: a response or failure of an upload request that arrives after its
\* modal was closed changes nothing in a modal opened afterwards: the new
\* modal starts idle with progress 0, no results, no error and language
\* "en", and until its own upload begins it stays idle with progress 0, no
\* results and no error, its language changing only by the user's own
\* selection.
C27_LateResponseChangesNothing ==
    [][/\ (lastOp'.op \in {"uploadSuccess", "uploadFailure"} /\ ~lastOp'.live)
            => InstanceState' = InstanceState
       /\ lastOp'.op = "open"
            => /\ uploadStatus' = "idle" /\ progress' = 0
               /\ results' = Null /\ error' = Null
               /\ selectedLanguage' = "en"
       /\ (showUploader /\ showUploader' /\ sentLanguage' = Null)
            => /\ uploadStatus' = "idle" /\ progress' = 0
               /\ results' = Null /\ error' = Null
               /\ selectedLanguage' # selectedLanguage
                    => lastOp'.op = "selectLanguage"]_vars

\* C27 witness: a modal opened after another was closed is idle, has
\* started no upload of its own, and the successful response of the closed
\* modal's request has just arrived.
C27_Witness ==
    /\ showUploader
    /\ lastOp.op = "uploadSuccess"
    /\ ~lastOp.live
    /\ sentLanguage = Null
    /\ uploadStatus = "idle"
    /\ progress = 0
    /\ results = Null
    /\ toast # Null

\* the assistant messages sendMessage's catch block stores
ErrorReplies ==
    {[role |-> "assistant", content |-> ChatErrorMessage(e)] : e \in ChatErrors}

\* the error replies of a sequence of messages, in order
ErrorRepliesIn(msgs) == SelectSeq(msgs, LAMBDA m : m \in ErrorReplies)

\* C28: a failed chat request stores the local error reply as an assistant
\* message at the end of the list, and a later request carries it in its
\* chat_history, as it was stored, whenever it is among the last 5 messages
\* stored before that request's own user message.
C28_ErrorRepliesInHistory ==
    /\ [](chatPending # Null =>
            LET n == Len(messages) - 1
                first == IF n > 5 THEN n - 4 ELSE 1
                history == chatPending[1].chat_history
            IN  /\ \A i \in first..n :
                     messages[i] \in ErrorReplies
                       => /\ i - first + 1 \in 1..Len(history)
                          /\ history[i - first + 1] = messages[i]
                /\ ErrorRepliesIn(history) =
                     ErrorRepliesIn(SubSeq(messages, first, n)))
    /\ [][chatOp' = "failure"
            => /\ messages'[Len(messages')] \in ErrorReplies
               /\ SubSeq(messages', 1, Len(messages)) = messages
               /\ Len(messages') = Len(messages) + 1]_vars

\* C28 witness: a request is in flight whose chat_history holds the error
\* reply of an earlier failed request next to a backend reply.
C28_Witness ==
    /\ chatPending # Null
    /\ Len(messages) >= 5
    /\ \E i \in 1..Len(chatPending[1].chat_history) :
          chatPending[1].chat_history[i] \in ErrorReplies
    /\ \E i \in 1..Len(chatPending[1].chat_history) :
          /\ chatPending[1].chat_history[i].role = "assistant"
          /\ chatPending[1].chat_history[i].content \in Replies

----------------------------------------------------------------------------
(* Termination of the progress timers, checked under SpecFair *)

\* the timer of upload u has been started and not cleared
TimerActive(u) == \E t \in timers : t.upload = u

\* C29: under fair timer ticks every progress timer is eventually cleared,
\* also when its request never returns, when it fails, or when the modal
\* is closed meanwhile.
C29_TimersEventuallyStop ==
    \A u \in 1..MaxUploads : TimerActive(u) ~> ~TimerActive(u)

====
